---- MODULE Spec2Model ----
(***************************************************************************)
(* Model of dockercompose.py, the Ansible module that drives               *)
(* docker-compose: main() (argument checks, dependency resolution, the     *)
(* unpause pre-step, the main invocation, the report) and the output       *)
(* classifier eval_change() with its helper service_state_allign().        *)
(*                                                                         *)
(* A Python string is a sequence of atoms.  An atom is a piece of text     *)
(* without whitespace, or one of the two whitespace atoms SP (a blank) and *)
(* NL (a line break).  In the texts the model draws, a literal the code    *)
(* looks for occurs only as the atoms that spell it, so str.startswith,    *)
(* str.endswith, the `in' test, str.strip, str.split and str.splitlines    *)
(* on the text are the same operations on the sequence of atoms.           *)
(***************************************************************************)
EXTENDS Integers, Sequences, FiniteSets

VARIABLES pc, p, COMPOSE_CMD, info, depedency_services, calls,
          rc, stdout, stderr, changed, failed, result, rsv, cls

vars == <<pc, p, COMPOSE_CMD, info, depedency_services, calls,
          rc, stdout, stderr, changed, failed, result, rsv, cls>>

runVars == <<pc, p, COMPOSE_CMD, info, depedency_services, calls,
             rc, stdout, stderr, changed, failed, result>>

(***************************************************************************)
(* Bounds.                                                                 *)
(***************************************************************************)
\* longest captured stderr, in lines, handed to the classifier
MaxLines == 3
\* longest captured stdout, in lines, handed to the classifier
MaxStdoutLines == 1
\* longest depends_on list of a service definition
MaxDeps == 2

(***************************************************************************)
(* Python string operations on sequences of atoms.                         *)
(***************************************************************************)
SP == " "
NL == "\n"

StartsWith(s, t) ==
    /\ Len(t) <= Len(s)
    /\ SubSeq(s, 1, Len(t)) = t

EndsWith(s, t) ==
    /\ Len(t) <= Len(s)
    /\ SubSeq(s, Len(s) - Len(t) + 1, Len(s)) = t

\* t in s
Contains(s, t) ==
    \E i \in 0..(Len(s) - Len(t)) : SubSeq(s, i + 1, i + Len(t)) = t

RECURSIVE LStrip(_)
LStrip(s) ==
    IF s # <<>> /\ Head(s) \in {SP, NL} THEN LStrip(Tail(s)) ELSE s

RECURSIVE RStrip(_)
RStrip(s) ==
    IF s # <<>> /\ s[Len(s)] \in {SP, NL}
    THEN RStrip(SubSeq(s, 1, Len(s) - 1))
    ELSE s

Strip(s) == RStrip(LStrip(s))

\* s.split(): the maximal runs of non-whitespace atoms; cur is the run
\* being read and out the runs already closed
RECURSIVE SplitFrom(_, _, _)
SplitFrom(s, cur, out) ==
    IF s = <<>>
    THEN IF cur = <<>> THEN out ELSE Append(out, cur)
    ELSE IF Head(s) \in {SP, NL}
         THEN SplitFrom(Tail(s), <<>>, IF cur = <<>> THEN out ELSE Append(out, cur))
         ELSE SplitFrom(Tail(s), Append(cur, Head(s)), out)

Split(s) == SplitFrom(s, <<>>, <<>>)

\* s.splitlines(): the pieces between line breaks, without the breaks; a
\* final line break opens no further line
RECURSIVE SplitLinesFrom(_, _, _)
SplitLinesFrom(s, cur, out) ==
    IF s = <<>>
    THEN IF cur = <<>> THEN out ELSE Append(out, cur)
    ELSE IF Head(s) = NL
         THEN SplitLinesFrom(Tail(s), <<>>, Append(out, cur))
         ELSE SplitLinesFrom(Tail(s), Append(cur, Head(s)), out)

splitlines(s) == SplitLinesFrom(s, <<>>, <<>>)

\* the text of a line given as its words, each word one atom
RECURSIVE Line(_)
Line(words) ==
    IF words = <<>> THEN <<>>
    ELSE IF Len(words) = 1 THEN <<Head(words)>>
    ELSE <<Head(words), SP>> \o Line(Tail(words))

\* the captured text of a stream given as its lines, each line closed by a
\* line break
RECURSIVE Text(_)
Text(lines) ==
    IF lines = <<>> THEN <<>>
    ELSE Head(lines) \o <<NL>> \o Text(Tail(lines))

(***************************************************************************)
(* The literals of eval_change() and service_state_allign().               *)
(***************************************************************************)
LitStarting == <<"Starting">>
LitCreating == <<"Creating">>
LitUpToDate == <<"up-to-date">>
LitDownloaded == Line(<<"Status:", "Downloaded", "newer", "image">>)
LitFailedToBuild == Line(<<"failed", "to", "build">>)
LitPausing == <<"Pausing">>
LitUnpausing == <<"Unpausing">>
LitAlreadyPaused == Line(<<"is", "already", "paused">>)
LitNotPaused == Line(<<"is", "not", "paused">>)
LitDots == <<"...">>
LitERROR == <<"ERROR">>
LitError == <<"error">>
LitDone == <<"done">>

(***************************************************************************)
(* service_state_allign(lines, prefix)                                     *)
(***************************************************************************)
\* d[k] = v on a dict
Put(d, k, v) == [x \in (DOMAIN d) \cup {k} |-> IF x = k THEN v ELSE d[x]]

\* paused_service.split()[1]; Python indexes from 0 and raises IndexError
\* when the line has a single word
HasSecondWord(ln) == Len(Split(ln)) >= 2

SecondWord(ln) == Split(ln)[2]

pausing_lines(lines, prefix) ==
    SelectSeq(lines, LAMBDA ln : StartsWith(ln, prefix) /\ ~EndsWith(Strip(ln), LitDots))

error_lines(lines) ==
    SelectSeq(lines, LAMBDA ln : StartsWith(ln, LitERROR))

\* [ln.split()[1] for ln in pausing_lines if ln.endswith(suffix)]
ServicesEnding(pausing, suffix) ==
    LET sel == SelectSeq(pausing, LAMBDA ln : EndsWith(ln, suffix))
    IN  [i \in 1..Len(sel) |-> SecondWord(sel[i])]

\* the inner loop: every error line that holds the service name overwrites
\* the entry of the service
RECURSIVE AssignErrorLines(_, _, _)
AssignErrorLines(state, service, errs) ==
    IF errs = <<>> THEN state
    ELSE AssignErrorLines(
            IF Contains(Head(errs), service) THEN Put(state, service, Head(errs)) ELSE state,
            service, Tail(errs))

RECURSIVE AssignErrors(_, _, _)
AssignErrors(state, services, errs) ==
    IF services = <<>> THEN state
    ELSE AssignErrors(AssignErrorLines(state, Head(services), errs), Tail(services), errs)

RECURSIVE AssignDone(_, _)
AssignDone(state, services) ==
    IF services = <<>> THEN state
    ELSE AssignDone(Put(state, Head(services), LitDone), Tail(services))

\* raised: the IndexError of split()[1]; state: the dict returned otherwise
service_state_allign(lines, prefix) ==
    LET pausing == pausing_lines(lines, prefix)
        errs == error_lines(lines)
        noword == \E i \in 1..Len(pausing) :
                     /\ EndsWith(pausing[i], LitError) \/ EndsWith(pausing[i], LitDone)
                     /\ ~HasSecondWord(pausing[i])
    IN  IF noword
        THEN [raised |-> TRUE, state |-> <<>>]
        ELSE [raised |-> FALSE,
              state |-> AssignDone(
                           AssignErrors(<<>>, ServicesEnding(pausing, LitError), errs),
                           ServicesEnding(pausing, LitDone))]

(***************************************************************************)
(* eval_change(action, stderr_lines, stdout_lines)                         *)
(***************************************************************************)
\* the flag assigned from every valid line, so that the last one decides
RECURSIVE UpLoop_LastLine(_, _)
UpLoop_LastLine(valid_lines, changeVal) ==
    IF valid_lines = <<>> THEN changeVal
    ELSE UpLoop_LastLine(Tail(valid_lines), ~EndsWith(Head(valid_lines), LitUpToDate))

\* the loop of the `up' branch
RECURSIVE UpLoop(_, _)
UpLoop(valid_lines, changeVal) ==
    IF valid_lines = <<>> THEN changeVal
    ELSE UpLoop(Tail(valid_lines),
                IF ~EndsWith(Head(valid_lines), LitUpToDate) THEN TRUE ELSE changeVal)

\* the "Starting" prefix left out of the filter
UpChange_CreatingOnly(stderr_lines) ==
    UpLoop(SelectSeq(stderr_lines, LAMBDA ln : StartsWith(ln, LitCreating)), FALSE)

UpChange(stderr_lines) ==
    UpLoop(SelectSeq(stderr_lines,
                     LAMBDA ln : StartsWith(ln, LitStarting) \/ StartsWith(ln, LitCreating)),
           FALSE)

\* the loops of the `pull' and `build' branches
RECURSIVE AnyContains(_, _, _)
AnyContains(lines, lit, val) ==
    IF lines = <<>> THEN val
    ELSE AnyContains(Tail(lines), lit, IF Contains(Head(lines), lit) THEN TRUE ELSE val)

PullChange(stdout_lines) == AnyContains(stdout_lines, LitDownloaded, FALSE)

\* only the first stderr line looked at
BuildFail_FirstLine(stderr_lines) ==
    stderr_lines # <<>> /\ Contains(Head(stderr_lines), LitFailedToBuild)

BuildFail(stderr_lines) == AnyContains(stderr_lines, LitFailedToBuild, FALSE)

\* the `stop' and `create' branches
AnyOutput(stderr_lines) == Len(stderr_lines) > 0

\* the loop of the `pause' and `unpause' branches
StateChange(service_state, quiet) ==
    \E service \in DOMAIN service_state : ~EndsWith(service_state[service], quiet)

\* raised: the call left by an exception, changeVal and failVal holding the
\* values the locals had then; otherwise the returned pair
eval_change(action, stderr_lines, stdout_lines) ==
    LET aligned == IF action = "pause" THEN service_state_allign(stderr_lines, LitPausing)
                   ELSE IF action = "unpause" THEN service_state_allign(stderr_lines, LitUnpausing)
                   ELSE [raised |-> FALSE, state |-> <<>>]
        changeVal ==
            CASE action = "up" -> UpChange(stderr_lines)
              [] action = "pull" -> PullChange(stdout_lines)
              [] action \in {"stop", "create"} -> AnyOutput(stderr_lines)
              [] action = "start" -> FALSE
              [] action = "pause" -> ~aligned.raised /\ StateChange(aligned.state, LitAlreadyPaused)
              [] action = "unpause" -> ~aligned.raised /\ StateChange(aligned.state, LitNotPaused)
              [] OTHER -> FALSE
        failVal == IF action = "build" THEN BuildFail(stderr_lines) ELSE FALSE
    IN  [raised |-> aligned.raised, changeVal |-> changeVal, failVal |-> failVal]

(***************************************************************************)
(* The compose document and the dependency resolution of main().           *)
(*                                                                         *)
(* info is the mapping yaml.load() returns.  Only its `services' key is    *)
(* read: has_services tells whether the key is there (a version 1 compose  *)
(* file has the service names at the top level and no such key), services  *)
(* is its value, a mapping from service name to service definition, and a  *)
(* service definition has a depends_on list or none.  The lists p.services *)
(* and depends_on are read through set() and len() only, so they are sets. *)
(***************************************************************************)
Names == {"web", "db", "cache"}

ServiceDefs ==
    {[has_depends_on |-> FALSE, depends_on |-> {}]} \cup
    {[has_depends_on |-> TRUE, depends_on |-> d] :
        d \in {x \in SUBSET Names : Cardinality(x) <= MaxDeps}}

Docs ==
    {[has_services |-> FALSE, services |-> <<>>]} \cup
    {[has_services |-> TRUE, services |-> f] :
        f \in UNION {[S -> ServiceDefs] : S \in SUBSET Names}}

\* info.get('services', [])
all_services(doc) ==
    IF doc.has_services
    THEN [type |-> "dict", items |-> doc.services]
    ELSE [type |-> "list", items |-> <<>>]

\* all_services.get(service, {}).get('depends_on', [])
depends_on(all, service) ==
    IF service \in DOMAIN all.items /\ all.items[service].has_depends_on
    THEN all.items[service].depends_on
    ELSE {}

\* the loop over p['services']; a list has no get(), so the first turn
\* raises AttributeError when all_services is the default []
RECURSIVE ResolveLoop(_, _, _)
ResolveLoop(all, todo, acc) ==
    IF todo = {} THEN [raised |-> FALSE, deps |-> acc]
    ELSE IF all.type # "dict" THEN [raised |-> TRUE, deps |-> acc]
    ELSE LET service == CHOOSE s \in todo : TRUE
         IN  ResolveLoop(all, todo \ {service}, acc \cup depends_on(all, service))

Resolve(services, ignoredependencys, doc) ==
    IF ignoredependencys
    THEN [raised |-> FALSE, deps |-> {}]
    ELSE ResolveLoop(all_services(doc), services, {})

\* the requested services left out of the union
EffectiveServices_DepsOnly(deps, services) == deps

\* set(depedency_services + p['services'])
EffectiveServices(deps, services) == deps \cup services

(***************************************************************************)
(* The resolver applied to bounded inputs, once and then to its own        *)
(* result.                                                                 *)
(***************************************************************************)
RsvIdle == [phase |-> "idle"]

Expand(services, ignoredependencys, doc) ==
    LET r == Resolve(services, ignoredependencys, doc)
    IN  [raised |-> r.raised,
         set |-> IF r.raised THEN {} ELSE EffectiveServices(r.deps, services)]

RsvInit ==
    \E doc \in Docs, requested \in SUBSET Names, ignore \in BOOLEAN :
        rsv = [phase |-> "input", doc |-> doc, requested |-> requested,
               ignoredependencys |-> ignore,
               first |-> [raised |-> FALSE, set |-> {}],
               second |-> [raised |-> FALSE, set |-> {}]]

RsvExpand ==
    /\ rsv.phase = "input"
    /\ LET r == Expand(rsv.requested, rsv.ignoredependencys, rsv.doc)
       IN  rsv' = [rsv EXCEPT !.phase = IF r.raised THEN "raised" ELSE "once",
                              !.first = r]
    /\ UNCHANGED <<runVars, cls>>

RsvExpandAgain ==
    /\ rsv.phase = "once"
    /\ LET r == Expand(rsv.first.set, rsv.ignoredependencys, rsv.doc)
       IN  rsv' = [rsv EXCEPT !.phase = IF r.raised THEN "raised" ELSE "twice",
                              !.second = r]
    /\ UNCHANGED <<runVars, cls>>

(***************************************************************************)
(* The classifier applied to bounded inputs.                               *)
(***************************************************************************)
Actions == {"up", "down", "start", "stop", "pause", "unpause", "pull", "create", "build"}

StderrLineSet ==
    { Line(<<"Starting", "web", "...", "done">>),
      Line(<<"Creating", "db", "is", "up-to-date">>),
      Line(<<"web", "is", "up-to-date">>),
      Line(<<"db", "failed", "to", "build">>),
      <<"Pausing", "done">>,
      Line(<<"Pausing", "db", "...", "error">>),
      Line(<<"Pausing", "web", "...", "done">>),
      Line(<<"ERROR", "for", "db", "is", "already", "paused">>),
      Line(<<"ERROR", "for", "db", "is", "not", "paused">>),
      Line(<<"Unpausing", "db", "...", "error">>),
      Line(<<"Unpausing", "web", "...", "done">>) }

StdoutLineSet ==
    { Line(<<"Status:", "Downloaded", "newer", "image", "for", "db">>),
      Line(<<"Status:", "Image", "is", "up-to-date", "for", "db">>) }

BoundedSeq(S, n) == UNION {[1..k -> S] : k \in 0..n}

ClsIdle == [phase |-> "idle"]

ClsInit ==
    \E action \in Actions,
       err \in BoundedSeq(StderrLineSet, MaxLines),
       out \in BoundedSeq(StdoutLineSet, MaxStdoutLines) :
        cls = [phase |-> "input", action |-> action,
               stderr_lines |-> err, stdout_lines |-> out,
               changeVal |-> FALSE, failVal |-> FALSE]

ClsEval ==
    /\ cls.phase = "input"
    /\ LET r == eval_change(cls.action, cls.stderr_lines, cls.stdout_lines)
       IN  cls' = [cls EXCEPT !.phase = IF r.raised THEN "raised" ELSE "returned",
                              !.changeVal = r.changeVal,
                              !.failVal = r.failVal]
    /\ UNCHANGED <<runVars, rsv>>

(***************************************************************************)
(* main(): one run of the module.                                          *)
(*                                                                         *)
(* calls is the history of module.run_command(): each invocation with the  *)
(* command line it was given and the result it returned.  result is what   *)
(* the run hands back: fail_json (kind "fail"), exit_json (kind "exit") or *)
(* an exception nothing catches (kind "crash").                            *)
(***************************************************************************)
None == "None"

MsgNoBinary == "docker-compose binary not found"
MsgNoLocation == "Location does not exists. Enter full path and compose filename."
MsgDownServices == "You cannot specify the command as down and a number of services"
MsgBadYaml == "YAML cannot be decoded."
MsgBuildFailed == "Build Failed."

\* the compose files a run may find at p['location']
DocV1 == [has_services |-> FALSE, services |-> <<>>]

DocChain ==
    [has_services |-> TRUE,
     services |-> [s \in Names |->
        IF s = "web" THEN [has_depends_on |-> TRUE, depends_on |-> {"db"}]
        ELSE IF s = "db" THEN [has_depends_on |-> TRUE, depends_on |-> {"cache"}]
        ELSE [has_depends_on |-> FALSE, depends_on |-> {}]]]

RunDocs == {DocV1, DocChain}

\* what docker-compose may write to stderr and stdout, and its exit codes
RunStderr ==
    { <<>>,
      Text(<<Line(<<"Starting", "web", "...", "done">>)>>),
      Text(<<Line(<<"db", "failed", "to", "build">>)>>),
      Text(<<<<"Pausing", "done">>>>),
      Text(<<Line(<<"Pausing", "db", "...", "error">>),
             Line(<<"ERROR", "for", "db", "is", "already", "paused">>)>>) }

RunStdout ==
    { <<>>,
      Text(<<Line(<<"Status:", "Downloaded", "newer", "image", "for", "db">>)>>) }

RunCodes == {0, 1}

Params ==
    [command : Actions, services : SUBSET Names,
     ignoredependencys : BOOLEAN, removevolumes : BOOLEAN]

RunIdle ==
    /\ pc = "idle"
    /\ p = None
    /\ COMPOSE_CMD = None
    /\ info = None
    /\ depedency_services = {}
    /\ calls = <<>>
    /\ rc = None
    /\ stdout = None
    /\ stderr = None
    /\ changed = None
    /\ failed = None
    /\ result = [kind |-> "none"]

RunInit ==
    /\ pc = "get_bin_path"
    /\ p \in Params
    /\ COMPOSE_CMD = None
    /\ info = None
    /\ depedency_services = {}
    /\ calls = <<>>
    /\ rc = None
    /\ stdout = None
    /\ stderr = None
    /\ changed = None
    /\ failed = None
    /\ result = [kind |-> "none"]

\* module.fail_json(msg=...) before any process ran
FailJson(msg) ==
    /\ pc' = "done"
    /\ result' = [kind |-> "fail", msg |-> msg]

\* an exception leaves main()
Crash(exception) ==
    /\ pc' = "done"
    /\ result' = [kind |-> "crash", exception |-> exception]

GetBinPath ==
    /\ pc = "get_bin_path"
    /\ \E found \in {"path", "alternative", "nowhere"} :
          IF found = "path"
          THEN /\ COMPOSE_CMD' = "docker-compose"
               /\ pc' = "check_location"
               /\ UNCHANGED result
          ELSE IF found = "alternative"
          THEN /\ COMPOSE_CMD' = "/usr/local/bin/docker-compose"
               /\ pc' = "check_location"
               /\ UNCHANGED result
          ELSE /\ FailJson(MsgNoBinary)
               /\ UNCHANGED COMPOSE_CMD
    /\ UNCHANGED <<p, info, depedency_services, calls, rc, stdout, stderr,
                   changed, failed, rsv, cls>>

CheckLocation ==
    /\ pc = "check_location"
    /\ \E exists \in BOOLEAN, isfile \in BOOLEAN :
          IF ~exists \/ ~isfile
          THEN FailJson(MsgNoLocation)
          ELSE pc' = "check_down" /\ UNCHANGED result
    /\ UNCHANGED <<p, COMPOSE_CMD, info, depedency_services, calls, rc, stdout,
                   stderr, changed, failed, rsv, cls>>

\* the comparison taken strict
DownWithServices_Strict(params) ==
    params.command = "down" /\ Cardinality(params.services) > 1

\* p['command'] == 'down' and len(p['services']) >= 1
DownWithServices(params) ==
    params.command = "down" /\ Cardinality(params.services) >= 1

CheckDown ==
    /\ pc = "check_down"
    /\ IF DownWithServices(p)
       THEN FailJson(MsgDownServices)
       ELSE pc' = "load_yaml" /\ UNCHANGED result
    /\ UNCHANGED <<p, COMPOSE_CMD, info, depedency_services, calls, rc, stdout,
                   stderr, changed, failed, rsv, cls>>

\* p['location'] is the absolute path the documentation asks for, so
\* os.chdir() to its directory succeeds once the file was read
LoadYaml ==
    /\ pc = "load_yaml"
    /\ \/ /\ FailJson(MsgBadYaml)
          /\ UNCHANGED info
       \/ /\ \E doc \in RunDocs : info' = doc
          /\ pc' = "resolve"
          /\ UNCHANGED result
    /\ UNCHANGED <<p, COMPOSE_CMD, depedency_services, calls, rc, stdout, stderr,
                   changed, failed, rsv, cls>>

ResolveDependencies ==
    /\ pc = "resolve"
    /\ LET r == Resolve(p.services, p.ignoredependencys, info)
       IN  IF r.raised
           THEN /\ Crash("AttributeError")
                /\ depedency_services' = r.deps
           ELSE /\ depedency_services' = r.deps
                /\ pc' = "unpause_first"
                /\ UNCHANGED result
    /\ UNCHANGED <<p, COMPOSE_CMD, info, calls, rc, stdout, stderr, changed,
                   failed, rsv, cls>>

\* p['command'] in ['stop', 'down']
NeedsUnpause(command) == command \in {"stop", "down"}

\* module.run_command(command): the call is recorded and rc, stdout and
\* stderr take what the process returned
RunProcess(command) ==
    \E code \in RunCodes, out \in RunStdout, err \in RunStderr :
        /\ calls' = Append(calls, [command |-> command, rc |-> code,
                                   stdout |-> out, stderr |-> err])
        /\ rc' = code
        /\ stdout' = out
        /\ stderr' = err

UnpauseFirst ==
    /\ pc = "unpause_first"
    /\ IF NeedsUnpause(p.command)
       THEN RunProcess([bin |-> COMPOSE_CMD, verb |-> "unpause",
                        services |-> EffectiveServices(depedency_services, p.services),
                        options |-> <<>>])
       ELSE UNCHANGED <<calls, rc, stdout, stderr>>
    /\ pc' = "run_command"
    /\ UNCHANGED <<p, COMPOSE_CMD, info, depedency_services, changed, failed,
                   result, rsv, cls>>

\* command_list, kept in its parts
command_list(bin, params, deps) ==
    [bin |-> bin,
     verb |-> IF params.command = "up" THEN "up -d" ELSE params.command,
     services |-> IF params.command # "down"
                  THEN EffectiveServices(deps, params.services)
                  ELSE {},
     options |-> IF params.command = "down" /\ params.removevolumes
                 THEN <<"-v">>
                 ELSE <<>>]

RunCommand ==
    /\ pc = "run_command"
    /\ RunProcess(command_list(COMPOSE_CMD, p, depedency_services))
    /\ pc' = "eval_change"
    /\ UNCHANGED <<p, COMPOSE_CMD, info, depedency_services, changed, failed,
                   result, rsv, cls>>

EvalChange ==
    /\ pc = "eval_change"
    /\ LET r == eval_change(p.command, splitlines(stderr), splitlines(stdout))
       IN  IF r.raised
           THEN /\ Crash("IndexError")
                /\ UNCHANGED <<changed, failed>>
           ELSE /\ changed' = r.changeVal
                /\ failed' = r.failVal
                /\ pc' = "report"
                /\ UNCHANGED result
    /\ UNCHANGED <<p, COMPOSE_CMD, info, depedency_services, calls, rc, stdout,
                   stderr, rsv, cls>>

\* a non-zero exit code taken for a failure
ReportsFailure_ExitCode(failVal, code) == failVal \/ code # 0

\* if failed:
ReportsFailure(failVal, code) == failVal

Report ==
    /\ pc = "report"
    /\ IF ReportsFailure(failed, rc)
       THEN result' = [kind |-> "fail", msg |-> MsgBuildFailed,
                       stdout |-> stdout, stderr |-> stderr]
       ELSE result' = [kind |-> "exit", rc |-> rc, changed |-> changed,
                       msg |-> <<Len(splitlines(stderr)), changed, failed>>,
                       stdout |-> stdout, stderr |-> stderr]
    /\ pc' = "done"
    /\ UNCHANGED <<p, COMPOSE_CMD, info, depedency_services, calls, rc, stdout,
                   stderr, changed, failed, rsv, cls>>

(***************************************************************************)
(* The specifications.                                                     *)
(***************************************************************************)
Init == RunInit /\ rsv = RsvIdle /\ cls = ClsIdle

Next ==
    \/ GetBinPath
    \/ CheckLocation
    \/ CheckDown
    \/ LoadYaml
    \/ ResolveDependencies
    \/ UnpauseFirst
    \/ RunCommand
    \/ EvalChange
    \/ Report

Spec == Init /\ [][Next]_vars

InitResolver == RunIdle /\ RsvInit /\ cls = ClsIdle

NextResolver == RsvExpand \/ RsvExpandAgain

SpecResolver == InitResolver /\ [][NextResolver]_vars

InitClassifier == RunIdle /\ rsv = RsvIdle /\ ClsInit

NextClassifier == ClsEval

SpecClassifier == InitClassifier /\ [][NextClassifier]_vars

(***************************************************************************)
(* Properties of a run (Spec).                                             *)
(***************************************************************************)
ConfigMsgs == {MsgNoBinary, MsgNoLocation, MsgDownServices, MsgBadYaml}

ConfigurationError == result.kind = "fail" /\ result.msg \in ConfigMsgs

\* C1: a run whose action is down and whose service list is not empty never
\* runs a process and never ends in exit_json; when it ends, it ends in a
\* configuration error, whatever the flags and the compose file are.
C1_DownWithServicesFails ==
    (p.command = "down" /\ p.services # {}) =>
        /\ calls = <<>>
        /\ result.kind \in {"none", "fail"}
        /\ pc = "done" => ConfigurationError

C1_Witness ==
    /\ pc = "done"
    /\ p.command = "down"
    /\ p.services # {}
    /\ result = [kind |-> "fail", msg |-> MsgDownServices]

Verbs == [i \in 1..Len(calls) |-> calls[i].command.verb]

MainVerb == IF p.command = "up" THEN "up -d" ELSE p.command

\* C2: a finished run has invoked no process when it ended in a
\* configuration error; otherwise it has invoked unpause and then the main
\* action when the action is stop or down, and the main action alone for
\* every other action; what exit_json reports is the main invocation's
\* result.
C2_InvocationSequence ==
    pc = "done" =>
        /\ IF ConfigurationError
           THEN calls = <<>>
           ELSE IF p.command \in {"stop", "down"}
                THEN Verbs = <<"unpause", MainVerb>>
                ELSE Verbs = <<MainVerb>>
        /\ result.kind = "exit" =>
              /\ result.rc = calls[Len(calls)].rc
              /\ result.stdout = calls[Len(calls)].stdout
              /\ result.stderr = calls[Len(calls)].stderr

\* C10: the outcome of a run that reached the main invocation is a function
\* of the action and of the stdout and stderr of that invocation: the run
\* fails exactly when the classifier marks these failed, reports the changed
\* flag the classifier gives for them, and the exit code has no part in it.
C10_FlagsFromOutputOnly ==
    (pc = "done" /\ calls # <<>>) =>
        LET m == calls[Len(calls)]
            e == eval_change(p.command, splitlines(m.stderr), splitlines(m.stdout))
        IN  /\ (result.kind = "crash") = e.raised
            /\ (result.kind = "fail") = (~e.raised /\ e.failVal)
            /\ (result.kind = "exit") = (~e.raised /\ ~e.failVal)
            /\ result.kind = "exit" => result.changed = e.changeVal

C10_Witness ==
    /\ pc = "done"
    /\ result.kind = "exit"
    /\ result.rc # 0
    /\ result.changed = TRUE

(***************************************************************************)
(* Properties of the resolver (SpecResolver).                              *)
(***************************************************************************)
\* the depends_on names the document declares for a service
RefDeps(doc, s) ==
    IF doc.has_services /\ s \in DOMAIN doc.services /\ doc.services[s].has_depends_on
    THEN doc.services[s].depends_on
    ELSE {}

RefEffective(doc, requested, ignore) ==
    IF ignore THEN requested
    ELSE requested \cup UNION {RefDeps(doc, s) : s \in requested}

\* C3: the resolver raises nothing and its effective service set is the
\* requested set when ignore-dependencies is set, and otherwise the requested
\* set with the depends_on names of each requested service the document
\* defines.
C3_ResolverMatchesReference ==
    rsv.phase \in {"once", "twice", "raised"} =>
        /\ ~rsv.first.raised
        /\ rsv.first.set = RefEffective(rsv.doc, rsv.requested, rsv.ignoredependencys)

\* C4 as stated: expanding an expanded set gives that set again.
C4_Idempotent ==
    rsv.phase = "twice" => rsv.second.set = rsv.first.set

\* C4 as amended: whenever expanding the requested set yields a set E,
\* expanding E again yields a set too, one that contains E and that equals E
\* exactly when ignore-dependencies is set or every depends_on name of every
\* service of E is in E.
C4_ReexpansionExtends ==
    /\ rsv.phase = "raised" => rsv.first.raised
    /\ rsv.phase = "twice" =>
          /\ rsv.first.set \subseteq rsv.second.set
          /\ (rsv.second.set = rsv.first.set) <=>
                \/ rsv.ignoredependencys
                \/ \A s \in rsv.first.set : RefDeps(rsv.doc, s) \subseteq rsv.first.set

C4_Witness ==
    /\ rsv.phase = "twice"
    /\ rsv.first.set # rsv.requested
    /\ rsv.second.set # rsv.first.set

(***************************************************************************)
(* Properties of the classifier (SpecClassifier).                          *)
(***************************************************************************)
StartingWebDone == Line(<<"Starting", "web", "...", "done">>)

\* C5 as stated: for up and the single stderr line "Starting web ... done"
\* the classifier returns changed = false and failed = false.
C5_StartingDoneUnchanged ==
    (cls.phase # "input" /\ cls.action = "up" /\ cls.stderr_lines = <<StartingWebDone>>) =>
        /\ cls.phase = "returned"
        /\ cls.changeVal = FALSE
        /\ cls.failVal = FALSE

\* C5 as amended: for up and the single stderr line "Starting web ... done"
\* the classifier returns changed = true and failed = false.
C5_StartingDoneChanged ==
    (cls.phase # "input" /\ cls.action = "up" /\ cls.stderr_lines = <<StartingWebDone>>) =>
        /\ cls.phase = "returned"
        /\ cls.changeVal = TRUE
        /\ cls.failVal = FALSE

C5_Witness ==
    /\ cls.phase = "returned"
    /\ cls.action = "up"
    /\ cls.stderr_lines = <<StartingWebDone>>
    /\ cls.stdout_lines = <<>>

\* C6: for up the classifier returns changed = true exactly when some stderr
\* line starts with "Starting" or "Creating" and does not end with
\* "up-to-date"; stdout and the other stderr lines have no part in it.
C6_UpChanged ==
    (cls.phase # "input" /\ cls.action = "up") =>
        /\ cls.phase = "returned"
        /\ cls.changeVal <=>
              \E i \in 1..Len(cls.stderr_lines) :
                 LET ln == cls.stderr_lines[i]
                 IN  /\ ln # <<>>
                     /\ ln[1] \in {"Starting", "Creating"}
                     /\ ln[Len(ln)] # "up-to-date"

C6_Witness ==
    /\ cls.phase = "returned"
    /\ cls.action = "up"
    /\ cls.changeVal = TRUE
    /\ Len(cls.stderr_lines) = 2
    /\ cls.stderr_lines[2] = Line(<<"Creating", "db", "is", "up-to-date">>)
    /\ cls.stdout_lines # <<>>

\* the line holds the words "failed to build", each a blank apart
RefFailedToBuild(ln) ==
    \E j \in 1..Len(ln) :
        /\ j + 4 <= Len(ln)
        /\ ln[j] = "failed" /\ ln[j + 1] = " " /\ ln[j + 2] = "to"
        /\ ln[j + 3] = " " /\ ln[j + 4] = "build"

\* C7: failed is true exactly when the action is build and some stderr line
\* contains "failed to build"; build returns changed = false; for up and
\* every other action failed is false whatever stderr holds.
C7_FailedOnlyForBuild ==
    cls.phase # "input" =>
        /\ cls.failVal <=>
              /\ cls.action = "build"
              /\ \E i \in 1..Len(cls.stderr_lines) : RefFailedToBuild(cls.stderr_lines[i])
        /\ cls.action = "build" => (cls.phase = "returned" /\ cls.changeVal = FALSE)

C7_Witness ==
    /\ cls.phase = "returned"
    /\ cls.action = "build"
    /\ cls.failVal = TRUE
    /\ cls.changeVal = FALSE
    /\ Len(cls.stderr_lines) >= 2

\* some line matches the rule of the action
RefRuleMatches ==
    \/ cls.action = "up" /\ \E i \in 1..Len(cls.stderr_lines) :
          cls.stderr_lines[i][1] \in {"Starting", "Creating"}
    \/ cls.action = "pull" /\ cls.stdout_lines # <<>>
    \/ cls.action \in {"build", "stop", "create"} /\ cls.stderr_lines # <<>>
    \/ cls.action = "pause" /\ \E i \in 1..Len(cls.stderr_lines) :
          cls.stderr_lines[i][1] = "Pausing"
    \/ cls.action = "unpause" /\ \E i \in 1..Len(cls.stderr_lines) :
          cls.stderr_lines[i][1] = "Unpausing"

\* C8: the classifier never raises: for every action and all lines it
\* returns a pair, and both flags are false when no line matches the rule of
\* the action.
C8_ClassifierNeverRaises ==
    cls.phase # "input" =>
        /\ cls.phase = "returned"
        /\ ~RefRuleMatches => (cls.changeVal = FALSE /\ cls.failVal = FALSE)

\* the lines that report a finished pause of a named service
RefPaused(lines, ending) ==
    {i \in 1..Len(lines) :
        /\ lines[i][1] = "Pausing"
        /\ lines[i][Len(lines[i])] = ending
        /\ Len(Split(lines[i])) >= 2}

\* the ERROR lines that hold the name
RefErrorsFor(lines, name) ==
    {i \in 1..Len(lines) : lines[i][1] = "ERROR" /\ Contains(lines[i], name)}

\* some service of the alignment has a status that does not end with
\* "is already paused": a service reported done, or a service reported in
\* error whose ERROR line (the last one that holds its name) ends otherwise
RefPauseChanged(lines) ==
    \/ RefPaused(lines, "done") # {}
    \/ \E i \in RefPaused(lines, "error") :
          LET errs == RefErrorsFor(lines, Split(lines[i])[2])
          IN  /\ errs # {}
              /\ LET last == CHOOSE e \in errs : \A o \in errs : o <= e
                 IN  ~EndsWith(lines[last], LitAlreadyPaused)

\* C9: for pause, changed is true exactly when the service-state alignment
\* holds a service whose status text does not end with "is already paused".
C9_PauseChanged ==
    (cls.phase # "input" /\ cls.action = "pause") =>
        (cls.changeVal = TRUE <=> RefPauseChanged(cls.stderr_lines))

====
